---------------------------- MODULE Spec2Model ----------------------------
(***************************************************************************)
(* A model of src/gpu/graphite/task/UploadTask.cpp: the staging-buffer     *)
(* layout planner (compute_combined_buffer_size), the two UploadInstance   *)
(* factories (Make, MakeCompressed), command emission (addCommand) and the *)
(* UploadList / UploadTask wrappers.                                       *)
(*                                                                         *)
(* Three specifications share the module:                                  *)
(*   Spec      the planner and the two factories applied to bounded inputs *)
(*   EmitSpec  one instance driven through prepareResources / addCommand   *)
(*   TaskSpec  UploadList::recordUpload, UploadTask::Make and              *)
(*             UploadTask::prepareResources                                *)
(***************************************************************************)
EXTENDS Integers, Sequences, FiniteSets

(***************************************************************************)
(* Bounds of the model.                                                    *)
(***************************************************************************)
\* largest texture width / height
MaxDim == 4
\* the staging pool hands out offsets 0 .. MaxSlot times the alignment
MaxSlot == 1
\* addCommand calls made on one instance
MaxCalls == 2
\* longest UploadList
MaxList == 2
\* largest level count handed to the planner on its own
MaxLevels == 3
\* largest texture width / height of the instances driven through addCommand
EmitDim == 2

VARIABLES
    caps,          \* the recorder's Caps: transfer alignment, row alignment, block flag
    aborted,       \* a debug-build SkASSERT has fired: the process is gone
    \* ---- Spec: the planner and the factories
    plan,          \* inputs and result of the last compute_combined_buffer_size
    call,          \* inputs of the last factory call
    ret,           \* result of the last factory call
    \* ---- EmitSpec: one instance
    inst,          \* the UploadInstance under emission (with its staging region)
    instantiated,  \* the instance's texture proxy is instantiated
    nCalls,        \* addCommand calls made on inst
    nSkipped,      \* ... of which needsUpload answered false
    nCmds,         \* copyBufferToTexture commands emitted for inst
    nNotified,     \* uploadSubmitted notifications received by inst's context
    lastCall,      \* inputs and effects of the last addCommand call
    \* ---- TaskSpec: the list and the task
    fInstances,    \* UploadList::fInstances
    planned,       \* the valid instances Make built for the recordUpload calls, in call order
    lastRecord,    \* inputs and result of the last recordUpload call
    task,          \* UploadTask::fInstances, or NoTask
    prepared       \* inputs and result of the last UploadTask::prepareResources

planVars == <<plan, call, ret>>
emitVars == <<inst, instantiated, nCalls, nSkipped, nCmds, nNotified, lastCall>>
taskVars == <<fInstances, planned, lastRecord, task, prepared>>
vars == <<caps, aborted, planVars, emitVars, taskVars>>

(***************************************************************************)
(* Arithmetic and geometry helpers (Skia base types).                      *)
(***************************************************************************)
Max(a, b) == IF a >= b THEN a ELSE b
Min(a, b) == IF a <= b THEN a ELSE b

\* SkAlignTo: x rounded up to a multiple of alignment
SkAlignTo(x, alignment) == ((x + alignment - 1) \div alignment) * alignment

\* SkISize
SkISize(w, h) == [w |-> w, h |-> h]

\* SkIRect {left, top, right, bottom}
SkIRect(l, t, r, b) == [l |-> l, t |-> t, r |-> r, b |-> b]
RectWidth(rc) == rc.r - rc.l
RectHeight(rc) == rc.b - rc.t
\* SkIRect::isEmpty
IsEmpty(rc) == RectWidth(rc) <= 0 \/ RectHeight(rc) <= 0
\* SkIRect::MakeSize
MakeSize(d) == SkIRect(0, 0, d.w, d.h)
\* SkIRect::offset
Offset(rc, v) == SkIRect(rc.l + v.x, rc.t + v.y, rc.r + v.x, rc.b + v.y)
\* SkIRect::intersect: the overlap, which the caller uses only when it is not empty
Intersect(a, b) == SkIRect(Max(a.l, b.l), Max(a.t, b.t), Min(a.r, b.r), Min(a.b, b.b))

(***************************************************************************)
(* Collaborators: compressed-data utilities, mip utilities, Caps.          *)
(***************************************************************************)
\* CompressedDimensionsInBlocks: 4x4 blocks for every compressed type
CompressedDimensionsInBlocks(compressionType, d) ==
    IF compressionType = "kNone" THEN d
    ELSE SkISize((d.w + 3) \div 4, (d.h + 3) \div 4)

\* CompressedDimensions: the size rounded up to whole blocks, in pixels
CompressedDimensions(compressionType, d) ==
    IF compressionType = "kNone" THEN d
    ELSE SkISize(4 * ((d.w + 3) \div 4), 4 * ((d.h + 3) \div 4))

\* SkCompressedBlockSize: bytes per 4x4 block
SkCompressedBlockSize(compressionType) == IF compressionType = "kNone" THEN 0 ELSE 8

\* CompressedRowBytes: bytes of one row of blocks
CompressedRowBytes(compressionType, width) ==
    ((width + 3) \div 4) * SkCompressedBlockSize(compressionType)

\* floor(log2(n)) for n >= 1
RECURSIVE Log2Floor(_)
Log2Floor(n) == IF n < 2 THEN 0 ELSE 1 + Log2Floor(n \div 2)

\* SkMipmap::ComputeLevelCount: the number of levels below the base level
ComputeLevelCount(w, h) == Log2Floor(Max(w, h))

\* SkCompressedDataSize: the total size of the blob and each level's offset in it
RECURSIVE CompressedLevels(_, _, _, _, _)
CompressedLevels(compressionType, d, n, total, offsets) ==
    IF n = 0 THEN [size |-> total, offsets |-> offsets]
    ELSE LET blk == CompressedDimensionsInBlocks(compressionType, d)
         IN CompressedLevels(compressionType,
                             SkISize(Max(1, d.w \div 2), Max(1, d.h \div 2)),
                             n - 1,
                             total + blk.w * blk.h * SkCompressedBlockSize(compressionType),
                             Append(offsets, total))

SkCompressedDataSize(compressionType, d, mipmapped) ==
    CompressedLevels(compressionType, d,
                     IF mipmapped THEN ComputeLevelCount(d.w, d.h) + 1 ELSE 1,
                     0, <<>>)

\* Caps::getAlignedTextureDataRowBytes
getAlignedTextureDataRowBytes(c, rowBytes) == SkAlignTo(rowBytes, c.rowAlign)

\* The Caps a recorder may carry.  Every alignment is a power of two and the
\* transfer alignment is at least 4.
CapsSet ==
    { [transferAlign |-> ta, rowAlign |-> ra, blockAligned |-> ba] :
        ta \in {4, 8}, ra \in {1, 4}, ba \in BOOLEAN }

(***************************************************************************)
(* compute_combined_buffer_size                                            *)
(***************************************************************************)
\* one iteration of the loop over the levels after the base level
PlanStepNoAlign(c, bytesPerBlock, compressionType, minAlign, st) ==
    LET levelDimensions == SkISize(Max(1, st.dims.w \div 2), Max(1, st.dims.h \div 2))
        blk == CompressedDimensionsInBlocks(compressionType, levelDimensions)
        alignedBytesPerRow == getAlignedTextureDataRowBytes(c, blk.w * bytesPerBlock)
    IN [dims |-> levelDimensions,
        total |-> st.total + alignedBytesPerRow * blk.h,
        levels |-> Append(st.levels, [off |-> st.total, rowBytes |-> alignedBytesPerRow]),
        ok |-> st.ok /\ st.total % minAlign = 0]

PlanStep(c, bytesPerBlock, compressionType, minAlign, st) ==
    LET levelDimensions == SkISize(Max(1, st.dims.w \div 2), Max(1, st.dims.h \div 2))
        blk == CompressedDimensionsInBlocks(compressionType, levelDimensions)
        alignedBytesPerRow == getAlignedTextureDataRowBytes(c, blk.w * bytesPerBlock)
        alignedSize == SkAlignTo(alignedBytesPerRow * blk.h, minAlign)
    IN [dims |-> levelDimensions,
        total |-> st.total + alignedSize,
        levels |-> Append(st.levels, [off |-> st.total, rowBytes |-> alignedBytesPerRow]),
        \* SkASSERT(combinedBufferSize % minTransferBufferAlignment == 0)
        ok |-> st.ok /\ st.total % minAlign = 0]

RECURSIVE PlanLoop(_, _, _, _, _, _, _)
PlanLoop(c, mipLevelCount, bytesPerBlock, compressionType, minAlign, currentMipLevel, st) ==
    IF currentMipLevel >= mipLevelCount THEN st
    ELSE PlanLoop(c, mipLevelCount, bytesPerBlock, compressionType, minAlign,
                  currentMipLevel + 1,
                  PlanStep(c, bytesPerBlock, compressionType, minAlign, st))

\* size: the total to allocate; align: the required offset alignment; levels: per
\* level, the offset from the start of the allocation and the aligned row bytes;
\* asserts: the SkASSERTs of the loop head and of the return all held
compute_combined_buffer_size(c, mipLevelCount, bytesPerBlock, baseDimensions, compressionType) ==
    LET blk0 == CompressedDimensionsInBlocks(compressionType, baseDimensions)
        minTransferBufferAlignment == Max(bytesPerBlock, c.transferAlign)
        row0 == getAlignedTextureDataRowBytes(c, blk0.w * bytesPerBlock)
        st0 == [dims |-> baseDimensions,
                total |-> SkAlignTo(row0 * baseDimensions.h, minTransferBufferAlignment),
                levels |-> << [off |-> 0, rowBytes |-> row0] >>,
                ok |-> TRUE]
        st == PlanLoop(c, mipLevelCount, bytesPerBlock, compressionType,
                       minTransferBufferAlignment, 1, st0)
    IN [size |-> st.total,
        align |-> minTransferBufferAlignment,
        levels |-> st.levels,
        asserts |-> /\ st.ok
                    /\ Len(st.levels) = mipLevelCount
                    /\ st.total % minTransferBufferAlignment = 0]


(***************************************************************************)
(* UploadInstance                                                          *)
(***************************************************************************)
\* a null sk_sp<TextureProxy>
NullProxy == [id |-> 0, w |-> 0, h |-> 0, mipmapped |-> FALSE, compression |-> "kNone"]

\* TextureProxy::dimensions
Dimensions(textureProxy) == SkISize(textureProxy.w, textureProxy.h)

\* UploadInstance(): the default-constructed, invalid instance
DefaultInstance ==
    [fBuffer |-> FALSE, fBytesPerPixel |-> 0, fTextureProxy |-> NullProxy,
     fCopyData |-> <<>>, fConditionalContext |-> FALSE]

\* UploadInstance::isValid
isValid(instance) == instance.fTextureProxy # NullProxy

\* what a factory call did: the instance returned, the staging regions it was
\* granted, the writes it made through the writer, and whether its SkASSERTs held
Outcome(instance, reserved, writes, asserts) ==
    [inst |-> instance, reserved |-> reserved, writes |-> writes, asserts |-> asserts]

\* return {};
NoOp == Outcome(DefaultInstance, <<>>, <<>>, TRUE)

\* the number of levels a full mip chain of the texture has
NumExpectedLevels(textureProxy) ==
    IF textureProxy.mipmapped
    THEN ComputeLevelCount(textureProxy.w, textureProxy.h) + 1
    ELSE 1

\* the SkASSERTs at the head of Make: callers pass one level or the full chain, and a
\* chain only with the whole texture as dstRect
MakePreconditions(textureProxy, levels, dstRect) ==
    /\ textureProxy # NullProxy
    /\ textureProxy.compression = "kNone"
    /\ Len(levels) >= 1
    /\ Len(levels) = 1 \/ dstRect = MakeSize(Dimensions(textureProxy))
    /\ Len(levels) = 1 \/ Len(levels) = NumExpectedLevels(textureProxy)

\* the two checks of the levels' pixel pointers; levels[i] is "fPixels is not null"
MissingPixelsFirstOnly(levels) == ~levels[1]

MissingPixels(levels) ==
    \/ Len(levels) = 1 /\ ~levels[1]
    \/ \E i \in 1..Len(levels) : ~levels[i]

\* bpp = isRGB888Format ? 3 : SkColorTypeBytesPerPixel(supportedColorType)
BytesPerPixel(fmt) == IF fmt.isRGB888Format THEN 3 ELSE fmt.bytesPerPixel

\* which writer primitive Make uses for a level
WriteStrategy(fmt, needsConversion) ==
    IF fmt.isRGB888Format THEN (IF needsConversion THEN "convertThenWriteRGBFromRGBx"
                                                   ELSE "writeRGBFromRGBx")
    ELSE IF needsConversion THEN "convertAndWrite"
    ELSE "write"

\* currentWidth = std::max(1, currentWidth / 2)
NextMipDimCeil(d) == Max(1, (d + 1) \div 2)

NextMipDim(d) == Max(1, d \div 2)

\* copyData[currentMipLevel] of Make
MakeCopyData(baseOffset, layout, dstRect, currentWidth, currentHeight, currentMipLevel) ==
    [fBufferOffset |-> baseOffset + layout.off,
     fBufferRowBytes |-> layout.rowBytes,
     fRect |-> SkIRect(dstRect.l, dstRect.t, dstRect.l + currentWidth, dstRect.t + currentHeight),
     fMipLevel |-> currentMipLevel]

\* the loop of Make over the levels; k holds what does not change across iterations
RECURSIVE MakeLevels(_, _, _, _, _)
MakeLevels(k, currentMipLevel, currentWidth, currentHeight, acc) ==
    IF currentMipLevel >= k.mipLevelCount THEN acc
    ELSE LET layout == k.levels[currentMipLevel + 1]
             wr == [strategy |-> k.strategy,
                    offset |-> layout.off,
                    dstRowBytes |-> layout.rowBytes,
                    trimRowBytes |-> currentWidth * k.bpp,
                    rows |-> currentHeight]
             cd == MakeCopyData(k.baseOffset, layout, k.dstRect,
                                currentWidth, currentHeight, currentMipLevel)
         IN MakeLevels(k, currentMipLevel + 1,
                       NextMipDim(currentWidth), NextMipDim(currentHeight),
                       [copyData |-> Append(acc.copyData, cd),
                        writes |-> Append(acc.writes, wr)])

\* UploadInstance::Make.  fmt is what Caps::supportedWritePixelsColorType answers,
\* staging what UploadBufferManager::getTextureUploadWriter answers.
Make(c, textureProxy, needsConversion, fmt, levels, dstRect, condContext, staging) ==
    LET mipLevelCount == Len(levels) IN
    IF IsEmpty(dstRect) THEN NoOp
    ELSE IF MissingPixels(levels) THEN NoOp
    ELSE IF fmt.colorType = "kUnknown" THEN NoOp
    ELSE
        LET bpp == BytesPerPixel(fmt)
            layout == compute_combined_buffer_size(
                          c, mipLevelCount, bpp,
                          SkISize(RectWidth(dstRect), RectHeight(dstRect)), "kNone")
            baseOffset == staging.slot * layout.align
        IN IF ~staging.fBuffer THEN Outcome(DefaultInstance, <<>>, <<>>, layout.asserts)
           ELSE LET done == MakeLevels(
                                [mipLevelCount |-> mipLevelCount, levels |-> layout.levels,
                                 baseOffset |-> baseOffset, dstRect |-> dstRect, bpp |-> bpp,
                                 strategy |-> WriteStrategy(fmt, needsConversion)],
                                0, RectWidth(dstRect), RectHeight(dstRect),
                                [copyData |-> <<>>, writes |-> <<>>])
                IN Outcome([fBuffer |-> TRUE,
                            fBytesPerPixel |-> bpp,
                            fTextureProxy |-> textureProxy,
                            fCopyData |-> done.copyData,
                            fConditionalContext |-> condContext],
                           << [base |-> baseOffset, size |-> layout.size] >>,
                           done.writes,
                           layout.asserts /\ layout.size > 0)

\* the loop of MakeCompressed over the levels
RECURSIVE MakeCompressedLevels(_, _, _, _, _)
MakeCompressedLevels(k, currentMipLevel, currentWidth, currentHeight, acc) ==
    IF currentMipLevel >= k.mipLevelCount THEN acc
    ELSE LET blockDimensions == CompressedDimensionsInBlocks(
                                    k.compression, SkISize(currentWidth, currentHeight))
             layout == k.levels[currentMipLevel + 1]
             trimRowBytes == CompressedRowBytes(k.compression, currentWidth)
             wr == [strategy |-> "write",
                    offset |-> layout.off,
                    dstRowBytes |-> layout.rowBytes,
                    trimRowBytes |-> trimRowBytes,
                    rows |-> blockDimensions.h]
             oneBlockDims == CompressedDimensions(k.compression, SkISize(1, 1))
             copyWidth == IF k.blockAligned THEN SkAlignTo(currentWidth, oneBlockDims.w)
                                            ELSE currentWidth
             copyHeight == IF k.blockAligned THEN SkAlignTo(currentHeight, oneBlockDims.h)
                                             ELSE currentHeight
             cd == [fBufferOffset |-> k.baseOffset + layout.off,
                    fBufferRowBytes |-> layout.rowBytes,
                    fRect |-> SkIRect(0, 0, copyWidth, copyHeight),
                    fMipLevel |-> currentMipLevel]
         IN MakeCompressedLevels(k, currentMipLevel + 1,
                                 Max(1, currentWidth \div 2), Max(1, currentHeight \div 2),
                                 [copyData |-> Append(acc.copyData, cd),
                                  writes |-> Append(acc.writes, wr)])

\* UploadInstance::MakeCompressed.  data is "data is not null".  The size check is
\* an SkASSERT: its failure is reported in asserts and the function carries on.
MakeCompressed(c, textureProxy, data, dataSize, staging) ==
    IF ~data THEN NoOp
    ELSE IF textureProxy.compression = "kNone" THEN NoOp
    ELSE
        LET compression == textureProxy.compression
            computed == SkCompressedDataSize(compression, Dimensions(textureProxy),
                                             textureProxy.mipmapped)
            mipLevelCount == Len(computed.offsets)
            bytesPerBlock == SkCompressedBlockSize(compression)
            layout == compute_combined_buffer_size(
                          c, mipLevelCount, bytesPerBlock, Dimensions(textureProxy),
                          compression)
            baseOffset == staging.slot * layout.align
            asserts == computed.size = dataSize /\ layout.asserts /\ layout.size > 0
        IN IF ~staging.fBuffer THEN Outcome(DefaultInstance, <<>>, <<>>, asserts)
           ELSE LET done == MakeCompressedLevels(
                                [mipLevelCount |-> mipLevelCount, levels |-> layout.levels,
                                 baseOffset |-> baseOffset, compression |-> compression,
                                 blockAligned |-> c.blockAligned],
                                0, textureProxy.w, textureProxy.h,
                                [copyData |-> <<>>, writes |-> <<>>])
                IN Outcome([fBuffer |-> TRUE,
                            fBytesPerPixel |-> bytesPerBlock,
                            fTextureProxy |-> textureProxy,
                            fCopyData |-> done.copyData,
                            fConditionalContext |-> FALSE],
                           << [base |-> baseOffset, size |-> layout.size] >>,
                           done.writes,
                           asserts)


(***************************************************************************)
(* Inputs.                                                                 *)
(***************************************************************************)
\* uncompressed textures
PlainTextures ==
    { [id |-> 1, w |-> w, h |-> h, mipmapped |-> m, compression |-> "kNone"] :
        w \in 1..MaxDim, h \in 1..MaxDim, m \in BOOLEAN }

\* block-compressed textures
CompressedTextures ==
    { [id |-> 1, w |-> w, h |-> h, mipmapped |-> m, compression |-> "kBC1_RGB8_UNORM"] :
        w \in 1..MaxDim, h \in 1..MaxDim, m \in BOOLEAN }

\* the answers of Caps::supportedWritePixelsColorType: no supported type, a type of
\* 1, 2, 4, 8 or 16 bytes per pixel, or RGB_888x, packed to 3 bytes or not
WriteColorTypes ==
    { [colorType |-> "kUnknown", isRGB888Format |-> FALSE, bytesPerPixel |-> 0],
      [colorType |-> "kRGB_888x", isRGB888Format |-> TRUE, bytesPerPixel |-> 4] }
    \cup { [colorType |-> "kOther", isRGB888Format |-> FALSE, bytesPerPixel |-> b] :
             b \in {1, 2, 4, 8, 16} }

\* the block sizes the planner is called with
BytesPerBlockSet == {1, 2, 3, 4, 8, 16}

\* the answers of UploadBufferManager::getTextureUploadWriter: no buffer, or a
\* buffer and an offset that is a multiple of the alignment asked for
StagingAnswers ==
    { [fBuffer |-> FALSE, slot |-> 0] } \cup { [fBuffer |-> TRUE, slot |-> k] : k \in 0..MaxSlot }

\* the level arrays a caller passes for a texture: one level or the full chain,
\* with at most one level that has no pixels
LevelArrays(textureProxy) ==
    LET lens == {1, NumExpectedLevels(textureProxy)}
    IN UNION { { [i \in 1..n |-> TRUE] } \cup
               { [i \in 1..n |-> i # j] : j \in 1..n } : n \in lens }

\* the destination rects a caller passes: the whole texture, the texture less its
\* first or last row and column, and an empty rect
DstRects(textureProxy, levels) ==
    LET full == MakeSize(Dimensions(textureProxy))
    IN IF Len(levels) > 1 THEN { full }
       ELSE { full,
              SkIRect(1, 1, textureProxy.w, textureProxy.h),
              SkIRect(0, 0, textureProxy.w - 1, textureProxy.h - 1),
              SkIRect(1, 0, 1, textureProxy.h) }

NoCall == [op |-> "none"]
NoPlan == [op |-> "none"]

(***************************************************************************)
(* Spec: the planner and the factories, each applied once to inputs drawn  *)
(* from the sets above.                                                    *)
(***************************************************************************)
Idle == ~aborted /\ call = NoCall /\ plan = NoPlan

\* compute_combined_buffer_size on its own
DoPlan ==
    /\ Idle
    /\ \E n \in 1..MaxLevels, bpb \in BytesPerBlockSet, w \in 1..MaxDim, h \in 1..MaxDim,
          comp \in {"kNone", "kBC1_RGB8_UNORM"} :
          plan' = [op |-> "plan", mipLevelCount |-> n, bytesPerBlock |-> bpb,
                   baseDimensions |-> SkISize(w, h), compressionType |-> comp,
                   result |-> compute_combined_buffer_size(caps, n, bpb, SkISize(w, h), comp)]
    /\ UNCHANGED <<caps, aborted, call, ret, emitVars, taskVars>>

\* UploadInstance::Make
DoMake ==
    /\ Idle
    /\ \E textureProxy \in PlainTextures, needsConversion \in BOOLEAN,
          fmt \in WriteColorTypes, condContext \in BOOLEAN, staging \in StagingAnswers :
         \E levels \in LevelArrays(textureProxy) :
           \E dstRect \in DstRects(textureProxy, levels) :
             /\ MakePreconditions(textureProxy, levels, dstRect)
             /\ call' = [op |-> "Make", textureProxy |-> textureProxy,
                         needsConversion |-> needsConversion, fmt |-> fmt,
                         levels |-> levels, dstRect |-> dstRect,
                         condContext |-> condContext, staging |-> staging]
             /\ ret' = Make(caps, textureProxy, needsConversion, fmt, levels, dstRect,
                            condContext, staging)
    /\ UNCHANGED <<caps, aborted, plan, emitVars, taskVars>>

\* UploadInstance::MakeCompressed.  When an SkASSERT fails, a debug build stops
\* there and a release build carries on.
DoMakeCompressed ==
    /\ Idle
    /\ \E textureProxy \in CompressedTextures \cup PlainTextures, data \in BOOLEAN,
          delta \in {-1, 0, 1}, staging \in StagingAnswers, debug \in BOOLEAN :
         LET computed == SkCompressedDataSize(textureProxy.compression,
                                              Dimensions(textureProxy),
                                              textureProxy.mipmapped)
             dataSize == computed.size + delta
             out == MakeCompressed(caps, textureProxy, data, dataSize, staging)
         IN /\ dataSize >= 0
            /\ call' = [op |-> "MakeCompressed", textureProxy |-> textureProxy,
                        data |-> data, dataSize |-> dataSize,
                        computedSize |-> computed.size, staging |-> staging]
            /\ IF debug /\ ~out.asserts
               THEN aborted' = TRUE /\ ret' = ret
               ELSE aborted' = FALSE /\ ret' = out
    /\ UNCHANGED <<caps, plan, emitVars, taskVars>>


(***************************************************************************)
(* UploadInstance::prepareResources and UploadInstance::addCommand         *)
(***************************************************************************)
\* UploadInstance::prepareResources; instantiates is what
\* TextureProxy::InstantiateIfNotLazy answers when it is called.
\* tried: InstantiateIfNotLazy was called.
InstancePrepare(instance, instantiates) ==
    IF instance.fTextureProxy = NullProxy THEN [ok |-> FALSE, tried |-> FALSE]
    ELSE IF ~instantiates THEN [ok |-> FALSE, tried |-> TRUE]
    ELSE [ok |-> TRUE, tried |-> TRUE]

\* fConditionalContext && !fConditionalContext->needsUpload(context)
SkipsUploadNever(instance, needs) == FALSE

SkipsUpload(instance, needs) == instance.fConditionalContext /\ ~needs

\* !croppedDstRect.intersect(...): the translated rect misses the texture
CropIsEmpty(croppedDstRect) == IsEmpty(croppedDstRect)

\* transformedCopyData.fBufferOffset
CropOffsetRowsOnly(copyData, dstRect, croppedDstRect, bytesPerPixel) ==
    copyData.fBufferOffset
        + (croppedDstRect.t - dstRect.t) * copyData.fBufferRowBytes

CropOffset(copyData, dstRect, croppedDstRect, bytesPerPixel) ==
    copyData.fBufferOffset
        + (croppedDstRect.t - dstRect.t) * copyData.fBufferRowBytes
        + (croppedDstRect.l - dstRect.l) * bytesPerPixel

\* the notification that ends addCommand
NotifyNever(instance) == <<>>

Notify(instance) == IF instance.fConditionalContext THEN <<"uploadSubmitted">> ELSE <<>>

\* UploadInstance::addCommand.  needs is what needsUpload(context) answers when it
\* is asked.  trace: the calls made on the conditional context and the command
\* buffer, in order; cmds: the copyBufferToTexture commands; instance: the instance
\* after the call; asserts: the SkASSERT on the number of descriptors held.
addCommand(instance, needs, replayData) ==
    LET asked == IF instance.fConditionalContext THEN <<"needsUpload">> ELSE <<>> IN
    IF SkipsUpload(instance, needs)
    THEN [trace |-> asked, cmds |-> <<>>, instance |-> instance, asserts |-> TRUE]
    ELSE IF instance.fTextureProxy.id # replayData.fTarget
    THEN [trace |-> asked \o <<"copyBufferToTexture">> \o Notify(instance),
          cmds |-> << [texture |-> instance.fTextureProxy.id,
                       copyData |-> instance.fCopyData] >>,
          instance |-> instance,
          asserts |-> TRUE]
    ELSE
        LET copyData == instance.fCopyData[1]
            dstRect == Offset(copyData.fRect, replayData.fTranslation)
            croppedDstRect == Intersect(dstRect, MakeSize(Dimensions(instance.fTextureProxy)))
            transformedCopyData ==
                [copyData EXCEPT
                    !.fBufferOffset = CropOffset(copyData, dstRect, croppedDstRect,
                                                 instance.fBytesPerPixel),
                    !.fRect = croppedDstRect]
        IN IF CropIsEmpty(croppedDstRect)
           THEN [trace |-> asked, cmds |-> <<>>, instance |-> instance,
                 asserts |-> Len(instance.fCopyData) = 1]
           ELSE [trace |-> asked \o <<"copyBufferToTexture">> \o Notify(instance),
                 cmds |-> << [texture |-> instance.fTextureProxy.id,
                              copyData |-> << transformedCopyData >>] >>,
                 instance |-> instance,
                 asserts |-> Len(instance.fCopyData) = 1]

(***************************************************************************)
(* EmitSpec: one instance is built, prepared, and asked for its commands.  *)
(***************************************************************************)
NoInstance == [instance |-> DefaultInstance, region |-> [base |-> 0, size |-> 0],
               from |-> "none"]
NoAddCommand == [op |-> "none"]

EmitTextures(S) == { t \in S : t.w <= EmitDim /\ t.h <= EmitDim }

\* the write color types of the instances under emission: packed RGB and 4 bytes
EmitColorTypes ==
    { f \in WriteColorTypes : f.colorType = "kRGB_888x" \/ f.bytesPerPixel = 4 }

\* Task::ReplayTargetData: no target (0) and no translation, or the instance's
\* texture (1) as the target and a translation of up to the texture's extent on
\* every side, which moves any rect of the texture off it
ReplayInputs(textureProxy) ==
    { [fTarget |-> 0, fTranslation |-> [x |-> 0, y |-> 0]] }
    \cup { [fTarget |-> 1, fTranslation |-> [x |-> dx, y |-> dy]] :
             dx \in (0 - textureProxy.w) .. textureProxy.w,
             dy \in (0 - textureProxy.h) .. textureProxy.h }

\* the staging offsets of the instances under emission: the first and the last
EmitSlots == {0, MaxSlot}

\* the level arrays of the instances under emission: every level has pixels
EmitLevelArrays(textureProxy) ==
    { [i \in 1..NumExpectedLevels(textureProxy) |-> TRUE] }

\* an instance built by Make; only a valid one becomes a task's instance
EmitMake ==
    /\ ~aborted /\ inst = NoInstance
    /\ \E textureProxy \in EmitTextures(PlainTextures), fmt \in EmitColorTypes,
          condContext \in BOOLEAN, slot \in EmitSlots :
         \E levels \in EmitLevelArrays(textureProxy) :
           \E dstRect \in DstRects(textureProxy, levels) :
             LET out == Make(caps, textureProxy, FALSE, fmt, levels, dstRect, condContext,
                             [fBuffer |-> TRUE, slot |-> slot])
             IN /\ MakePreconditions(textureProxy, levels, dstRect)
                /\ isValid(out.inst)
                /\ inst' = [instance |-> out.inst, region |-> out.reserved[1],
                            from |-> "Make"]
    /\ UNCHANGED <<caps, aborted, planVars, instantiated, nCalls, nSkipped, nCmds,
                   nNotified, lastCall, taskVars>>

\* an instance built by MakeCompressed from a blob of the computed size
EmitMakeCompressed ==
    /\ ~aborted /\ inst = NoInstance
    /\ \E textureProxy \in EmitTextures(CompressedTextures), slot \in EmitSlots :
         LET computed == SkCompressedDataSize(textureProxy.compression,
                                              Dimensions(textureProxy),
                                              textureProxy.mipmapped)
             out == MakeCompressed(caps, textureProxy, TRUE, computed.size,
                                   [fBuffer |-> TRUE, slot |-> slot])
         IN /\ isValid(out.inst)
            /\ inst' = [instance |-> out.inst, region |-> out.reserved[1],
                        from |-> "MakeCompressed"]
    /\ UNCHANGED <<caps, aborted, planVars, instantiated, nCalls, nSkipped, nCmds,
                   nNotified, lastCall, taskVars>>

\* UploadInstance::prepareResources on the instance
EmitPrepare ==
    /\ ~aborted /\ inst # NoInstance /\ ~instantiated
    /\ \E instantiates \in BOOLEAN :
         instantiated' = InstancePrepare(inst.instance, instantiates).ok
    /\ UNCHANGED <<caps, aborted, planVars, inst, nCalls, nSkipped, nCmds, nNotified,
                   lastCall, taskVars>>

\* UploadInstance::addCommand on the instance
EmitAddCommand ==
    /\ ~aborted /\ inst # NoInstance /\ instantiated /\ nCalls < MaxCalls
    /\ \E needs \in (IF inst.instance.fConditionalContext THEN BOOLEAN ELSE {TRUE}),
          replayData \in ReplayInputs(inst.instance.fTextureProxy) :
         LET out == addCommand(inst.instance, needs, replayData) IN
         \* when the SkASSERT fails, a debug build stops and a release build carries on
         \E debug \in (IF out.asserts THEN {FALSE} ELSE BOOLEAN) :
            IF debug
            THEN /\ aborted' = TRUE
                 /\ UNCHANGED <<inst, nCalls, nSkipped, nCmds, nNotified, lastCall>>
            ELSE /\ aborted' = FALSE
                 /\ inst' = [inst EXCEPT !.instance = out.instance]
                 /\ nCalls' = nCalls + 1
                 /\ nSkipped' = nSkipped
                        + (IF inst.instance.fConditionalContext /\ ~needs THEN 1 ELSE 0)
                 /\ nCmds' = nCmds + Len(out.cmds)
                 /\ nNotified' = nNotified
                        + Cardinality({ i \in 1..Len(out.trace) : out.trace[i] = "uploadSubmitted" })
                 /\ lastCall' = [op |-> "addCommand", needs |-> needs,
                                 replayData |-> replayData, before |-> inst.instance,
                                 trace |-> out.trace, cmds |-> out.cmds]
    /\ UNCHANGED <<caps, instantiated, planVars, taskVars>>


(***************************************************************************)
(* UploadList and UploadTask                                               *)
(***************************************************************************)
\* UploadList::recordUpload, given the instance Make built: the value returned
\* and the list afterwards
recordUploadAlways(list, instance) ==
    [ok |-> TRUE, fInstances |-> Append(list, instance)]

recordUpload(list, instance) ==
    IF ~isValid(instance) THEN [ok |-> FALSE, fInstances |-> list]
    ELSE [ok |-> TRUE, fInstances |-> Append(list, instance)]

\* UploadTask::prepareResources: the loop over the instances, from instance i on.
\* outcomes[i] is what InstantiateIfNotLazy answers for instance i if it is called;
\* tried lists the instances it was called for.
RECURSIVE TaskPrepareAll(_, _, _, _)
TaskPrepareAll(instances, outcomes, i, acc) ==
    IF i > Len(instances) THEN acc
    ELSE LET r == InstancePrepare(instances[i], outcomes[i])
         IN TaskPrepareAll(instances, outcomes, i + 1,
                           [ok |-> acc.ok /\ r.ok,
                            tried |-> IF r.tried THEN Append(acc.tried, i) ELSE acc.tried])

RECURSIVE TaskPrepare(_, _, _, _)
TaskPrepare(instances, outcomes, i, acc) ==
    IF i > Len(instances) THEN acc
    ELSE LET r == InstancePrepare(instances[i], outcomes[i])
             tried == IF r.tried THEN Append(acc.tried, i) ELSE acc.tried
         IN IF ~r.ok THEN [ok |-> FALSE, tried |-> tried]
            ELSE TaskPrepare(instances, outcomes, i + 1, [ok |-> TRUE, tried |-> tried])

prepareResourcesNoFailFast(instances, outcomes) ==
    TaskPrepareAll(instances, outcomes, 1, [ok |-> TRUE, tried |-> <<>>])

prepareResources(instances, outcomes) ==
    TaskPrepare(instances, outcomes, 1, [ok |-> TRUE, tried |-> <<>>])

(***************************************************************************)
(* TaskSpec: uploads are recorded on a list, the list becomes a task, and  *)
(* the task prepares its resources.                                        *)
(***************************************************************************)
NoTask == [made |-> FALSE, fInstances |-> <<>>]
NoRecord == [op |-> "none"]
NoPrepare == [op |-> "none"]

\* the textures uploads are recorded for: square, mipmapped unless 1x1
TaskTextures ==
    { t \in EmitTextures(PlainTextures) : t.w = t.h /\ (t.mipmapped <=> t.w > 1) }

\* the write color types of recorded uploads: none supported, or 4 bytes
TaskColorTypes ==
    { f \in WriteColorTypes : f.colorType = "kUnknown" \/ f.bytesPerPixel = 4 }

\* the staging pool's answers to recorded uploads: no buffer, or offset 0
TaskStaging == { a \in StagingAnswers : a.slot = 0 }

\* UploadList::recordUpload
RecordUpload ==
    /\ ~aborted /\ ~task.made /\ Len(fInstances) < MaxList
    /\ \E textureProxy \in TaskTextures, fmt \in TaskColorTypes, condContext \in BOOLEAN,
          staging \in TaskStaging :
         \E levels \in LevelArrays(textureProxy) :
           \E dstRect \in DstRects(textureProxy, levels) :
             LET out == Make(caps, textureProxy, FALSE, fmt, levels, dstRect, condContext,
                             staging)
                 r == recordUpload(fInstances, out.inst)
             IN /\ MakePreconditions(textureProxy, levels, dstRect)
                /\ fInstances' = r.fInstances
                /\ planned' = IF isValid(out.inst) THEN Append(planned, out.inst) ELSE planned
                /\ lastRecord' = [op |-> "recordUpload", ok |-> r.ok,
                                  valid |-> isValid(out.inst), before |-> fInstances]
    /\ UNCHANGED <<caps, aborted, planVars, emitVars, task, prepared>>

\* UploadTask::Make(UploadList*): the list's instances move into the task
MakeTask ==
    /\ ~aborted /\ ~task.made /\ Len(fInstances) > 0
    /\ task' = [made |-> TRUE, fInstances |-> fInstances]
    /\ fInstances' = <<>>
    /\ UNCHANGED <<caps, aborted, planVars, emitVars, planned, lastRecord, prepared>>

\* UploadTask::Make(UploadInstance): no task for an invalid instance
MakeTaskSingle ==
    /\ ~aborted /\ ~task.made /\ fInstances = <<>> /\ planned = <<>>
    /\ \E textureProxy \in TaskTextures, fmt \in TaskColorTypes, condContext \in BOOLEAN,
          staging \in TaskStaging :
         \E levels \in LevelArrays(textureProxy) :
           \E dstRect \in DstRects(textureProxy, levels) :
             LET out == Make(caps, textureProxy, FALSE, fmt, levels, dstRect, condContext,
                             staging)
             IN /\ MakePreconditions(textureProxy, levels, dstRect)
                /\ task' = IF isValid(out.inst)
                           THEN [made |-> TRUE, fInstances |-> << out.inst >>]
                           ELSE NoTask
    /\ UNCHANGED <<caps, aborted, planVars, emitVars, fInstances, planned, lastRecord,
                   prepared>>

\* UploadTask::prepareResources, run once
PrepareResources ==
    /\ ~aborted /\ task.made /\ prepared = NoPrepare
    /\ \E outcomes \in [1..Len(task.fInstances) -> BOOLEAN] :
         LET r == prepareResources(task.fInstances, outcomes)
         IN prepared' = [op |-> "prepareResources", outcomes |-> outcomes,
                         ok |-> r.ok, tried |-> r.tried]
    /\ UNCHANGED <<caps, aborted, planVars, emitVars, fInstances, planned, lastRecord, task>>

(***************************************************************************)
(* The specifications.                                                     *)
(***************************************************************************)
Quiet ==
    /\ aborted = FALSE
    /\ plan = NoPlan /\ call = NoCall /\ ret = NoOp
    /\ inst = NoInstance /\ instantiated = FALSE
    /\ nCalls = 0 /\ nSkipped = 0 /\ nCmds = 0 /\ nNotified = 0
    /\ lastCall = NoAddCommand
    /\ fInstances = <<>> /\ planned = <<>> /\ lastRecord = NoRecord
    /\ task = NoTask /\ prepared = NoPrepare

Init == caps \in CapsSet /\ Quiet

Next == DoPlan \/ DoMake \/ DoMakeCompressed

Spec == Init /\ [][Next]_vars

\* the Caps of the recorder that drives one instance
EmitCaps == { c \in CapsSet : c.transferAlign = 4 /\ (c.blockAligned <=> c.rowAlign = 4) }

EmitInit == caps \in EmitCaps /\ Quiet

EmitNext == EmitMake \/ EmitMakeCompressed \/ EmitPrepare \/ EmitAddCommand

EmitSpec == EmitInit /\ [][EmitNext]_vars

\* the Caps of the recorder that records uploads on a list
TaskCaps == { c \in CapsSet : c.transferAlign = 4 /\ c.rowAlign = 1 /\ ~c.blockAligned }

TaskInit == caps \in TaskCaps /\ Quiet

TaskNext == RecordUpload \/ MakeTask \/ MakeTaskSingle \/ PrepareResources

TaskSpec == TaskInit /\ [][TaskNext]_vars


(***************************************************************************)
(* Properties of command emission (EmitSpec).                              *)
(***************************************************************************)
Called == lastCall.op = "addCommand"
HasContext == inst.instance.fConditionalContext

\* positions of a call in the last addCommand's trace
TraceAt(name) == { i \in 1..Len(lastCall.trace) : lastCall.trace[i] = name }

\* the last call's descriptor, translated by the replay translation
ReplayRect == Offset(lastCall.before.fCopyData[1].fRect, lastCall.replayData.fTranslation)
\* the bounds of the instance's texture
TextureBounds == SkIRect(0, 0, inst.instance.fTextureProxy.w, inst.instance.fTextureProxy.h)
\* whether the translated rect and the texture bounds share a pixel
ReplayMeets ==
    /\ Max(ReplayRect.l, TextureBounds.l) < Min(ReplayRect.r, TextureBounds.r)
    /\ Max(ReplayRect.t, TextureBounds.t) < Min(ReplayRect.b, TextureBounds.b)
\* their overlap
ReplayCrop ==
    SkIRect(Max(ReplayRect.l, TextureBounds.l), Max(ReplayRect.t, TextureBounds.t),
            Min(ReplayRect.r, TextureBounds.r), Min(ReplayRect.b, TextureBounds.b))
\* the last call ran with the instance's own texture as the replay target
OwnTarget == lastCall.replayData.fTarget = inst.instance.fTextureProxy.id

\* C1: on an instance with a conditional context, an addCommand call in which
\* needsUpload answers false emits no copyBufferToTexture command and does not call
\* uploadSubmitted, whatever the replay target; when every call so far was answered
\* false, no command has been emitted and no notification made in total.
C1_SkipEmitsNothing ==
    /\ (Called /\ HasContext /\ ~lastCall.needs)
          => /\ lastCall.cmds = <<>>
             /\ TraceAt("copyBufferToTexture") = {}
             /\ TraceAt("uploadSubmitted") = {}
    /\ (HasContext /\ nSkipped = nCalls) => (nCmds = 0 /\ nNotified = 0)

\* two consecutive calls answered false, the second with the instance's own
\* texture as the replay target
C1_Witness ==
    /\ HasContext /\ nCalls = 2 /\ nSkipped = 2 /\ nCmds = 0
    /\ Called /\ ~lastCall.needs /\ OwnTarget

\* C2: on an instance with a conditional context, a call of addCommand calls
\* uploadSubmitted exactly once if it emitted a copyBufferToTexture command, after
\* emitting it, and not at all otherwise (needsUpload answered false, or the
\* translated rect misses the texture).
C2_NotifiedIffEmitted ==
    (Called /\ HasContext) =>
        /\ Cardinality(TraceAt("copyBufferToTexture")) = Len(lastCall.cmds)
        /\ Len(lastCall.cmds) <= 1
        /\ Cardinality(TraceAt("uploadSubmitted")) = Len(lastCall.cmds)
        /\ \A n \in TraceAt("uploadSubmitted") :
               \A c \in TraceAt("copyBufferToTexture") : c < n
        /\ (~lastCall.needs \/ (OwnTarget /\ ~ReplayMeets))
               => TraceAt("uploadSubmitted") = {}
        /\ nNotified = nCmds

\* a cropped command was emitted and the context was then notified
C2_Witness ==
    /\ Called /\ HasContext /\ lastCall.needs /\ OwnTarget
    /\ ReplayCrop # ReplayRect
    /\ lastCall.trace = <<"needsUpload", "copyBufferToTexture", "uploadSubmitted">>

\* C4: when addCommand runs with the instance's own texture as the replay target, on
\* an instance with one descriptor whose predicate is absent or answers yes, and R is
\* the descriptor's rect translated by the replay translation: if R misses the
\* texture bounds no command is emitted; otherwise one command with one descriptor is
\* emitted, whose rect is the overlap C, whose mip level and row bytes are the stored
\* ones, and whose offset is the stored offset + (C.top - R.top) * rowBytes +
\* (C.left - R.left) * bytesPerPixel.  The stored descriptor does not change.
C4_CroppedCommand ==
    (/\ Called /\ OwnTarget
     /\ Len(lastCall.before.fCopyData) = 1
     /\ (~HasContext \/ lastCall.needs))
    => LET stored == lastCall.before.fCopyData[1] IN
       /\ inst.instance = lastCall.before
       /\ IF ~ReplayMeets THEN lastCall.cmds = <<>>
          ELSE /\ Len(lastCall.cmds) = 1
               /\ Len(lastCall.cmds[1].copyData) = 1
               /\ LET e == lastCall.cmds[1].copyData[1] IN
                  /\ e.fRect = ReplayCrop
                  /\ e.fMipLevel = stored.fMipLevel
                  /\ e.fBufferRowBytes = stored.fBufferRowBytes
                  /\ e.fBufferOffset =
                        stored.fBufferOffset
                        + (ReplayCrop.t - ReplayRect.t) * stored.fBufferRowBytes
                        + (ReplayCrop.l - ReplayRect.l) * inst.instance.fBytesPerPixel

\* a command cropped on the left and on the top
C4_Witness ==
    /\ Called /\ OwnTarget /\ Len(lastCall.before.fCopyData) = 1
    /\ ReplayMeets
    /\ ReplayCrop.l > ReplayRect.l /\ ReplayCrop.t > ReplayRect.t
    /\ Len(lastCall.cmds) = 1

\* an offset lies in the instance's staging region
InRegion(offset) ==
    inst.region.base <= offset /\ offset < inst.region.base + inst.region.size

\* C5: every stored descriptor of a valid instance built by Make or MakeCompressed
\* has its bufferOffset in the reserved region [B, B + S), and so has the adjusted
\* descriptor addCommand emits in the replay-target branch, for any translation.
C5_OffsetsInRegion ==
    (inst # NoInstance) =>
        /\ \A i \in 1..Len(inst.instance.fCopyData) :
               InRegion(inst.instance.fCopyData[i].fBufferOffset)
        /\ (Called /\ OwnTarget) =>
               \A k \in 1..Len(lastCall.cmds) :
                   \A i \in 1..Len(lastCall.cmds[k].copyData) :
                       InRegion(lastCall.cmds[k].copyData[i].fBufferOffset)

\* the same, of the instances built by Make alone
C5_MakeOffsetsInRegion == (inst.from = "Make") => C5_OffsetsInRegion


(***************************************************************************)
(* Properties of the factories and of the planner (Spec).                  *)
(***************************************************************************)
MadeCall == call.op = "Make"

\* the instance returned is the no-op sentinel: no texture, no descriptors
IsSentinel(instance) == instance.fTextureProxy = NullProxy /\ instance.fCopyData = <<>>

\* C3: given a texture and at least one level, Make returns the no-op sentinel if
\* and only if dstRect is empty, or some level has no pixels, or the device reports
\* no supported write color type, or the staging pool returns no buffer; otherwise
\* it returns a valid instance holding the texture and one descriptor per level.
C3_MakeSentinelIff ==
    MadeCall =>
        LET refused == \/ IsEmpty(call.dstRect)
                       \/ \E i \in 1..Len(call.levels) : ~call.levels[i]
                       \/ call.fmt.colorType = "kUnknown"
                       \/ ~call.staging.fBuffer
        IN IF refused
           THEN IsSentinel(ret.inst) /\ ~isValid(ret.inst)
           ELSE /\ isValid(ret.inst)
                /\ ret.inst.fTextureProxy = call.textureProxy
                /\ Len(ret.inst.fCopyData) = Len(call.levels)

\* a full chain whose base level has pixels and whose second level has none
C3_Witness ==
    /\ MadeCall /\ Len(call.levels) > 1
    /\ call.levels[1] /\ ~call.levels[2]
    /\ call.fmt.colorType # "kUnknown" /\ call.staging.fBuffer
    /\ IsSentinel(ret.inst)

\* C8: MakeCompressed returns the no-op sentinel whenever dataSize differs from the
\* size computed from the texture's compression type, dimensions and mipmapped flag;
\* it then reserves no staging region and writes no bytes.
C8_SizeMismatchIsSentinel ==
    (call.op = "MakeCompressed" /\ ~aborted /\ call.dataSize # call.computedSize) =>
        /\ IsSentinel(ret.inst)
        /\ ret.reserved = <<>>
        /\ ret.writes = <<>>

\* descriptor i + 1 of the instance returned keeps descriptor i's top-left corner
\* and halves its size with half(_), and descriptor i has mip level i - 1
ChainHalves(half(_)) ==
    LET cd == ret.inst.fCopyData IN
    /\ \A i \in 1..Len(cd) : cd[i].fMipLevel = i - 1
    /\ \A i \in 1..(Len(cd) - 1) :
          /\ cd[i + 1].fRect.l = cd[i].fRect.l
          /\ cd[i + 1].fRect.t = cd[i].fRect.t
          /\ RectWidth(cd[i + 1].fRect) = half(RectWidth(cd[i].fRect))
          /\ RectHeight(cd[i + 1].fRect) = half(RectHeight(cd[i].fRect))

HalfUp(d) == Max(1, (d + 1) \div 2)
HalfDown(d) == Max(1, d \div 2)

\* C9 as stated: in every valid instance Make builds from more than one level, each
\* descriptor keeps the previous one's top-left corner and has width and height
\* max(1, ceil(previous / 2)), and descriptor i has mipLevel i.
C9_HalvesRoundedUp ==
    (MadeCall /\ isValid(ret.inst) /\ Len(call.levels) > 1) => ChainHalves(HalfUp)

\* C9 as amended: in every valid instance Make builds from more than one level, each
\* descriptor keeps the previous one's top-left corner and has width and height
\* max(1, floor(previous / 2)), and descriptor i has mipLevel i.
C9_HalvesRoundedDown ==
    (MadeCall /\ isValid(ret.inst) /\ Len(call.levels) > 1) => ChainHalves(HalfDown)

\* a chain whose base level is 3 or more wide and of odd width
C9_Witness ==
    /\ MadeCall /\ isValid(ret.inst) /\ Len(ret.inst.fCopyData) > 1
    /\ RectWidth(ret.inst.fCopyData[1].fRect) >= 3
    /\ RectWidth(ret.inst.fCopyData[1].fRect) % 2 = 1

\* C10: for every level count, bytes per block (1, 2, 3, 4, 8, 16) and base size,
\* compute_combined_buffer_size returns max(bytesPerBlock, transfer alignment) as the
\* required alignment, every level's offset and the total size are multiples of it,
\* and the assertions at the loop head and at the return hold; so they do in the
\* planner call Make makes.
C10_PlannerAligned ==
    /\ (plan.op = "plan") =>
          LET r == plan.result
              a == Max(plan.bytesPerBlock, caps.transferAlign) IN
          /\ r.align = a
          /\ Len(r.levels) = plan.mipLevelCount
          /\ \A i \in 1..Len(r.levels) : r.levels[i].off % a = 0
          /\ r.size % a = 0
          /\ r.asserts
    /\ MadeCall => ret.asserts

\* three levels of 3-byte pixels whose rows are not a multiple of the alignment
C10_Witness ==
    /\ plan.op = "plan" /\ plan.bytesPerBlock = 3 /\ plan.mipLevelCount = 3
    /\ plan.result.levels[1].rowBytes % plan.result.align # 0
    /\ plan.result.levels[2].rowBytes % plan.result.align # 0
    /\ plan.result.levels[3].off > plan.result.levels[2].off

(***************************************************************************)
(* Properties of the list and of the task (TaskSpec).                      *)
(***************************************************************************)
\* instance i of the task has a texture and its instantiation succeeds
Prepares(i) ==
    task.fInstances[i].fTextureProxy # NullProxy /\ prepared.outcomes[i]

\* C6: UploadTask::prepareResources visits the instances in order and returns true
\* if and only if every instance has a texture and its instantiation succeeds; at
\* the first instance that fails it returns false without attempting to instantiate
\* any later instance.
C6_PrepareFailsFast ==
    (prepared.op = "prepareResources") =>
        LET n == Len(task.fInstances)
            failing == { i \in 1..n : ~Prepares(i) }
            firstFailing == CHOOSE i \in failing : \A j \in failing : i <= j
            last == IF failing = {} THEN n
                    ELSE IF task.fInstances[firstFailing].fTextureProxy = NullProxy
                    THEN firstFailing - 1
                    ELSE firstFailing
        IN /\ prepared.ok <=> failing = {}
           /\ prepared.tried = [i \in 1..last |-> i]

\* the first of two instances fails to instantiate and the second is never tried
C6_Witness ==
    /\ prepared.op = "prepareResources" /\ Len(task.fInstances) = 2
    /\ ~prepared.outcomes[1] /\ prepared.outcomes[2]
    /\ ~prepared.ok /\ prepared.tried = <<1>>

\* C7: after any sequence of recordUpload calls the list holds exactly the instances
\* planned by the calls that returned true, in call order, each of them valid; a
\* call returns true exactly when its plan is valid, and a call that returns false
\* leaves the list unchanged.
C7_ListHoldsValidPlans ==
    ~task.made =>
        /\ fInstances = planned
        /\ \A i \in 1..Len(fInstances) : isValid(fInstances[i])
        /\ (lastRecord.op = "recordUpload") =>
              /\ lastRecord.ok <=> lastRecord.valid
              /\ ~lastRecord.ok => fInstances = lastRecord.before
              /\ lastRecord.ok => Len(fInstances) = Len(lastRecord.before) + 1

\* a failed call after a successful one
C7_Witness ==
    /\ ~task.made /\ Len(fInstances) = 1
    /\ lastRecord.op = "recordUpload" /\ ~lastRecord.ok
    /\ lastRecord.before = fInstances


(***************************************************************************)
(* The layout of the planner against the level-by-level algorithm (Spec).  *)
(***************************************************************************)
\* the levels' layout by the algorithm: level i has dimensions d (the base halved
\* i times, at least 1 per axis), rows of the block grid's width, and the size of
\* the block grid's height many rows rounded up to the alignment; its offset is
\* the sum of the sizes before it
RECURSIVE LayoutByAlgorithm(_, _, _, _, _, _, _)
LayoutByAlgorithm(c, n, bytesPerBlock, compressionType, d, total, levels) ==
    IF n = 0 THEN [size |-> total, levels |-> levels]
    ELSE LET grid == CompressedDimensionsInBlocks(compressionType, d)
             rowBytes == SkAlignTo(grid.w * bytesPerBlock, c.rowAlign)
             size == SkAlignTo(rowBytes * grid.h, Max(bytesPerBlock, c.transferAlign))
         IN LayoutByAlgorithm(c, n - 1, bytesPerBlock, compressionType,
                              SkISize(Max(1, d.w \div 2), Max(1, d.h \div 2)),
                              total + size,
                              Append(levels, [off |-> total, rowBytes |-> rowBytes]))

\* the last planner call returned the algorithm's layout
PlanMatchesAlgorithm ==
    LET want == LayoutByAlgorithm(caps, plan.mipLevelCount, plan.bytesPerBlock,
                                  plan.compressionType, plan.baseDimensions, 0, <<>>)
    IN /\ plan.result.levels = want.levels
       /\ plan.result.size = want.size

\* C11: for every level count, bytes per block, base size and compression mode,
\* compute_combined_buffer_size gives level i the offset sum of size_j for j < i and
\* the row bytes alignRow(bw_i * bytesPerBlock), and returns the sum of all size_i,
\* where size_i = align(rowBytes_i * bh_i, alignment) and (bw_i, bh_i) is the block
\* grid of the base dimensions halved i times (at least 1 per axis).
C11_PlannerLayout == (plan.op = "plan") => PlanMatchesAlgorithm

\* the same, of the calls with no compression
C11_UncompressedLayout ==
    (plan.op = "plan" /\ plan.compressionType = "kNone") => PlanMatchesAlgorithm

\* the same, of the calls whose base level is one block high
C11_OneBlockHighLayout ==
    (plan.op = "plan" /\ plan.baseDimensions.h = 1) => PlanMatchesAlgorithm

=============================================================================
